---- MODULE Spec2Model ----
(***************************************************************************)
(* Building simulator (simulators/building/simulator.py): the physics of   *)
(* BuildingState, the four equipment profiles and the update loop of       *)
(* BuildingSimulator.                                                      *)
(*                                                                         *)
(* Numbers.  Every analog quantity of the program is a Python float.  The  *)
(* model carries it as an integer number of hundredths (72.0 degF is 7200, *)
(* 50 % is 5000) and rounds a quotient toward minus infinity where the     *)
(* program rounds to the nearest double.  Fx(n) is the integer n in that   *)
(* representation.  random.random() is a number of hundredths in 0..99.    *)
(***************************************************************************)
EXTENDS Integers, Sequences, FiniteSets, TLC

VARIABLES
    pc,              \* position of the process: see Running below
    equipment_type,  \* args.equipment, a sequence of characters
    profile,         \* self.profile: [kind, zone_index]
    state,           \* self.state: the BuildingState
    objects,         \* self.objects: the ordered list of points
    registered,      \* identifiers handed to app.add_object, in order
    ticks,           \* number of iterations of update_loop started
    writes,          \* number of external writes made so far
    faults,          \* number of exceptions raised inside the try block
    ev,              \* the last step taken: [kind, idx]
    before,          \* history: the BuildingState when the last iteration began
    last_write,      \* history: the last external write: [idx, val], val a number
    env,             \* physics runs: the clock reading and random numbers held
    warm             \* physics runs: per zone, the number of ticks in a row whose
                     \* reheat test found the zone at or above setpoint - 1

vars == <<pc, equipment_type, profile, state, objects, registered, ticks, writes,
          faults, ev, before, last_write, env, warm>>

-----------------------------------------------------------------------------
(* Bounds of the model *)

MaxTicks == 3
MaxWrites == 1
MaxFaults == 1

-----------------------------------------------------------------------------
(* Arithmetic *)

Fx(n) == n * 100

Min2(a, b) == IF b < a THEN b ELSE a
Max2(a, b) == IF b > a THEN b ELSE a

INTERVAL == 5

Zones == 0 .. 5

\* random.uniform(a, b) is a + (b - a) * random(); a, b in hundredths, r in 0..99
PyUniform(a, b, r) == a + ((b - a) * r) \div 100

\* values random() takes in the model, in hundredths: the ends of its range
RandNoise == {0, 99}

\* datetime.now(): <<weekday, hour>>, a weekday at noon and a Sunday at night
Clock == {<<2, 12>>, <<6, 3>>}

\* One call of update() draws twelve numbers from the random generator, in
\* this order: occupancy, outdoor noise, fan noise, the load noise of zones
\* 0..5, chilled water supply and return noise, miscellaneous load noise.
DrawOcc == 1
DrawOut == 2
DrawFan == 3
DrawZone(i) == 4 + i
DrawChs == 10
DrawChr == 11
DrawMisc == 12

\* the sequences of draws of the model: the occupancy draw (50) decides with
\* the schedule, the noise draws alternate between the ends of their range
Streams ==
    { [k \in 1 .. 12 |-> IF k = 1 THEN 50 ELSE IF k % 2 = 0 THEN 0 ELSE 99],
      [k \in 1 .. 12 |-> IF k = 1 THEN 50 ELSE IF k % 2 = 0 THEN 99 ELSE 0] }

-----------------------------------------------------------------------------
(* BuildingState *)

\* BuildingState.__init__
BuildingStateInit ==
    [ outdoor_temp              |-> Fx(85),
      is_occupied               |-> TRUE,
      chilled_water_supply_temp |-> Fx(44),
      chilled_water_return_temp |-> Fx(54),
      hot_water_supply_temp     |-> Fx(180),
      hot_water_return_temp     |-> Fx(160),
      ahu_supply_air_temp       |-> Fx(55),
      ahu_return_air_temp       |-> Fx(72),
      ahu_mixed_air_temp        |-> Fx(65),
      ahu_supply_air_flow       |-> Fx(12000),
      ahu_fan_speed             |-> Fx(75),
      ahu_cooling_valve         |-> Fx(50),
      ahu_heating_valve         |-> Fx(0),
      ahu_supply_air_setpoint   |-> Fx(55),
      vav_zone_temps            |-> [i \in Zones |-> Fx(72)],
      vav_zone_setpoints        |-> [i \in Zones |-> Fx(72)],
      vav_damper_positions      |-> [i \in Zones |-> Fx(50)],
      vav_airflows              |-> [i \in Zones |-> Fx(2000)],
      vav_reheat_valves         |-> [i \in Zones |-> Fx(0)],
      total_power               |-> Fx(0),
      total_energy              |-> Fx(0) ]

\* is_business_hours: now = <<weekday, hour>>
is_business_hours(now) ==
    IF now[1] >= 5 THEN FALSE ELSE 8 <= now[2] /\ now[2] < 18

\* update_occupancy: r is the value random.random() returns
update_occupancy(st, now, r) ==
    IF is_business_hours(now)
    THEN [st EXCEPT !.is_occupied = (r < 95)]
    ELSE [st EXCEPT !.is_occupied = (r < 5)]

\* daily_swing * math.sin((hour - 6) * math.pi / 12), in hundredths, hour 0..23
DailySwing ==
    << -1500, -1449, -1299, -1061, -750, -388, 0, 388, 750, 1061, 1299, 1449,
       1500, 1449, 1299, 1061, 750, 388, 0, -388, -750, -1061, -1299, -1449 >>

\* mutant of update_outdoor_temp: the outdoor temperature is left as it was
update_outdoor_temp_skipped(st, now, r) == st

\* update_outdoor_temp
update_outdoor_temp(st, now, r) ==
    [st EXCEPT !.outdoor_temp =
        (Fx(75) + DailySwing[now[2] + 1]) + PyUniform(Fx(-2), Fx(2), r)]

\* sum(xs) for a list indexed 0..n-1
RECURSIVE SumTo(_, _)
SumTo(xs, n) == IF n = 0 THEN 0 ELSE SumTo(xs, n - 1) + xs[n - 1]

\* max(lo, min(hi, x))
Clamp(lo, hi, x) == Max2(lo, Min2(hi, x))

\* the cooling valve controller of update_ahu
CoolingValveNext(valve, temp_error) ==
    Clamp(Fx(0), Fx(100), valve + temp_error * 2)

\* mutant of update_ahu: the return air temperature is not recomputed
update_ahu_return_kept(st, r) ==
    LET outdoor_damper == IF st.is_occupied THEN 20 ELSE 10
        mixed == (st.ahu_return_air_temp * (100 - outdoor_damper)) \div 100
                 + (st.outdoor_temp * outdoor_damper) \div 100
        temp_error == st.ahu_supply_air_temp - st.ahu_supply_air_setpoint
        valve == CoolingValveNext(st.ahu_cooling_valve, temp_error)
        cooling_effect == (valve * 3) \div 10
        fan == IF st.is_occupied
               THEN Fx(75) + PyUniform(Fx(-5), Fx(5), r)
               ELSE Fx(40) + PyUniform(Fx(-5), Fx(5), r)
    IN  [st EXCEPT !.ahu_mixed_air_temp  = mixed,
                   !.ahu_cooling_valve   = valve,
                   !.ahu_supply_air_temp = mixed - cooling_effect,
                   !.ahu_fan_speed       = fan,
                   !.ahu_supply_air_flow = fan * 160]

\* update_ahu
update_ahu(st, r) ==
    LET outdoor_damper == IF st.is_occupied THEN 20 ELSE 10
        mixed == (st.ahu_return_air_temp * (100 - outdoor_damper)) \div 100
                 + (st.outdoor_temp * outdoor_damper) \div 100
        temp_error == st.ahu_supply_air_temp - st.ahu_supply_air_setpoint
        valve == CoolingValveNext(st.ahu_cooling_valve, temp_error)
        cooling_effect == (valve * 3) \div 10
        fan == IF st.is_occupied
               THEN Fx(75) + PyUniform(Fx(-5), Fx(5), r)
               ELSE Fx(40) + PyUniform(Fx(-5), Fx(5), r)
    IN  [st EXCEPT !.ahu_mixed_air_temp  = mixed,
                   !.ahu_cooling_valve   = valve,
                   !.ahu_supply_air_temp = mixed - cooling_effect,
                   !.ahu_return_air_temp = SumTo(st.vav_zone_temps, 6) \div 6,
                   !.ahu_fan_speed       = fan,
                   !.ahu_supply_air_flow = fan * 160]

\* mutant of DamperNext: the upper limit of the damper is forgotten
DamperNextNoUpperLimit(damper, temp_error) ==
    Max2(Fx(20), damper + temp_error * 3)

\* the damper controller of update_vavs
DamperNext(damper, temp_error) ==
    Clamp(Fx(20), Fx(100), damper + temp_error * 3)

\* mutant of ReheatNext: the valve is held, not ramped down, in a warm zone
ReheatNextHeld(reheat, zone_temp, setpoint) ==
    IF zone_temp < setpoint - Fx(1)
    THEN Min2(Fx(100), reheat + Fx(5))
    ELSE reheat

\* the reheat valve ramp of update_vavs
ReheatNext(reheat, zone_temp, setpoint) ==
    IF zone_temp < setpoint - Fx(1)
    THEN Min2(Fx(100), reheat + Fx(5))
    ELSE Max2(Fx(0), reheat - Fx(5))

\* one iteration of the loop of update_vavs, for zone i
update_vav(st, i, r) ==
    LET base_load == IF st.is_occupied THEN 50 ELSE 10
        zone_load == base_load + PyUniform(-20, 20, r)
                     + (IF i % 2 = 0 THEN 30 ELSE 0)
        temp_error == st.vav_zone_temps[i] - st.vav_zone_setpoints[i]
        damper == DamperNext(st.vav_damper_positions[i], temp_error)
        airflow == damper * 30
        cooling_effect ==
            ((airflow \div 10) * (st.vav_zone_temps[i] - st.ahu_supply_air_temp))
                \div 200000
        heat_gain == zone_load * 2
        zone_temp == st.vav_zone_temps[i]
                     + ((heat_gain - cooling_effect) * INTERVAL) \div 60
    IN  [st EXCEPT !.vav_damper_positions[i] = damper,
                   !.vav_airflows[i]         = airflow,
                   !.vav_zone_temps[i]       = zone_temp,
                   !.vav_reheat_valves[i]    =
                       ReheatNext(st.vav_reheat_valves[i], zone_temp,
                                  st.vav_zone_setpoints[i])]

\* F applied to the value of x.  TLC evaluates an operator's argument again at
\* every use inside ENABLED; binding the value first makes a chain of
\* statements cost the sum of its steps, not their product.
Then(x, F(_)) == CHOOSE y \in {F(v) : v \in {x}} : TRUE

\* update_vavs, its first n iterations: rnd[DrawZone(i)] is drawn for zone i
RECURSIVE update_vavs(_, _, _)
update_vavs(st, rnd, n) ==
    IF n = 0 THEN st
    ELSE Then(update_vavs(st, rnd, n - 1),
              LAMBDA s : update_vav(s, n - 1, rnd[DrawZone(n - 1)]))

\* mutant of update_chiller: the valve percentage, not the load, is compared
\* with 50
update_chiller_valve_threshold(st, r1, r2) ==
    IF st.ahu_cooling_valve > Fx(50)
    THEN [st EXCEPT
            !.chilled_water_supply_temp = Fx(42) + PyUniform(Fx(-1), Fx(1), r1),
            !.chilled_water_return_temp = Fx(52) + PyUniform(Fx(-1), Fx(1), r2)]
    ELSE [st EXCEPT
            !.chilled_water_supply_temp = Fx(44) + PyUniform(Fx(-1), Fx(1), r1),
            !.chilled_water_return_temp = Fx(54) + PyUniform(Fx(-1), Fx(1), r2)]

\* update_chiller
update_chiller(st, r1, r2) ==
    LET cooling_load == st.ahu_cooling_valve * 100
    IN  IF cooling_load > Fx(50)
        THEN [st EXCEPT
                !.chilled_water_supply_temp = Fx(42) + PyUniform(Fx(-1), Fx(1), r1),
                !.chilled_water_return_temp = Fx(52) + PyUniform(Fx(-1), Fx(1), r2)]
        ELSE [st EXCEPT
                !.chilled_water_supply_temp = Fx(44) + PyUniform(Fx(-1), Fx(1), r1),
                !.chilled_water_return_temp = Fx(54) + PyUniform(Fx(-1), Fx(1), r2)]

\* total_power of update_power
TotalPower(st, r) ==
    LET f == st.ahu_fan_speed
        ahu_power == ((((f * f) \div 10000) * f) * 15) \div 1000000
        chiller_power == (st.ahu_cooling_valve * 80) \div 100
        reheat_power == (SumTo(st.vav_reheat_valves, 6) * 2) \div 100
        misc_power == IF st.is_occupied
                      THEN Fx(50) + PyUniform(Fx(-5), Fx(5), r)
                      ELSE Fx(10) + PyUniform(Fx(-2), Fx(2), r)
    IN  ahu_power + chiller_power + reheat_power + misc_power

\* mutant of update_power: the energy of the tick replaces the total
update_power_assigns(st, r) ==
    LET p == TotalPower(st, r)
    IN  [st EXCEPT !.total_power  = p,
                   !.total_energy = (p * INTERVAL) \div 3600]

\* update_power
update_power(st, r) ==
    LET p == TotalPower(st, r)
    IN  [st EXCEPT !.total_power  = p,
                   !.total_energy = st.total_energy + (p * INTERVAL) \div 3600]

\* the clock readings and random numbers one call of update() consumes
Draws == [now : Clock, rnd : Streams]

\* mutant of UpdatePrefix: update_vavs is called before update_ahu
UpdatePrefixZonesBeforeAhu(st, d, n, z) ==
    LET Step1(s) == IF n >= 1 THEN update_occupancy(s, d.now, d.rnd[DrawOcc]) ELSE s
        Step2(s) == IF n >= 2 THEN update_outdoor_temp(s, d.now, d.rnd[DrawOut]) ELSE s
        Step3(s) == IF n >= 3 THEN update_ahu(s, d.rnd[DrawFan]) ELSE s
        Step4(s) == IF n >= 4 THEN update_vavs(s, d.rnd, 6)
                    ELSE IF n = 3 THEN update_vavs(s, d.rnd, z) ELSE s
        Step5(s) == IF n >= 5
                    THEN update_chiller(s, d.rnd[DrawChs], d.rnd[DrawChr]) ELSE s
        Step6(s) == IF n >= 6 THEN update_power(s, d.rnd[DrawMisc]) ELSE s
    IN  Then(Then(Then(Then(Then(Step1(st), Step2), Step4), Step3), Step5), Step6)

\* update(), stopped by an exception after n of its six steps and, inside
\* update_vavs (n = 3), after z iterations of its loop; n = 6 is all of update()
UpdatePrefix(st, d, n, z) ==
    LET Step1(s) == IF n >= 1 THEN update_occupancy(s, d.now, d.rnd[DrawOcc]) ELSE s
        Step2(s) == IF n >= 2 THEN update_outdoor_temp(s, d.now, d.rnd[DrawOut]) ELSE s
        Step3(s) == IF n >= 3 THEN update_ahu(s, d.rnd[DrawFan]) ELSE s
        Step4(s) == IF n >= 4 THEN update_vavs(s, d.rnd, 6)
                    ELSE IF n = 3 THEN update_vavs(s, d.rnd, z) ELSE s
        Step5(s) == IF n >= 5
                    THEN update_chiller(s, d.rnd[DrawChs], d.rnd[DrawChr]) ELSE s
        Step6(s) == IF n >= 6 THEN update_power(s, d.rnd[DrawMisc]) ELSE s
    IN  Then(Then(Then(Then(Then(Step1(st), Step2), Step3), Step4), Step5), Step6)

\* BuildingState.update
update(st, d) == UpdatePrefix(st, d, 6, 0)

-----------------------------------------------------------------------------
(* Equipment profiles *)

NoProfile == [kind |-> "none", zone_index |-> 0]

Point(kind, instance, value) == [oid |-> <<kind, instance>>, pv |-> value]

Binary(b) == IF b THEN "active" ELSE "inactive"

\* xs[i] of a six-element Python list: a negative index counts from the end
PyIndexOK(i) == -6 <= i /\ i <= 5
PyIndex(i) == IF i < 0 THEN i + 6 ELSE i

\* mutant of AHUCreateObjects: the enable point is left out
AHUCreateObjectsEightPoints(st) ==
    << Point("analogInput", 1, st.ahu_supply_air_temp),
       Point("analogInput", 2, st.ahu_return_air_temp),
       Point("analogInput", 3, st.ahu_mixed_air_temp),
       Point("analogInput", 4, st.ahu_supply_air_flow),
       Point("analogValue", 1, st.ahu_supply_air_setpoint),
       Point("analogOutput", 1, st.ahu_fan_speed),
       Point("analogOutput", 2, st.ahu_cooling_valve),
       Point("binaryInput", 1, "active") >>

\* AHUProfile.create_objects
AHUCreateObjects(st) ==
    << Point("analogInput", 1, st.ahu_supply_air_temp),
       Point("analogInput", 2, st.ahu_return_air_temp),
       Point("analogInput", 3, st.ahu_mixed_air_temp),
       Point("analogInput", 4, st.ahu_supply_air_flow),
       Point("analogValue", 1, st.ahu_supply_air_setpoint),
       Point("analogOutput", 1, st.ahu_fan_speed),
       Point("analogOutput", 2, st.ahu_cooling_valve),
       Point("binaryInput", 1, "active"),
       Point("binaryOutput", 1, "active") >>

\* mutant of VAVCreateObjects: the zone index is not scaled into a band of ten
VAVCreateObjectsNoBand(st, zone_index) ==
    LET base_id == zone_index
        k == PyIndex(zone_index)
    IN  << Point("analogInput", base_id + 1, st.vav_zone_temps[k]),
           Point("analogValue", base_id + 1, st.vav_zone_setpoints[k]),
           Point("analogOutput", base_id + 1, st.vav_damper_positions[k]),
           Point("analogInput", base_id + 2, st.vav_airflows[k]),
           Point("analogOutput", base_id + 2, st.vav_reheat_valves[k]),
           Point("binaryInput", base_id + 1, Binary(st.is_occupied)) >>

\* VAVProfile.create_objects
VAVCreateObjects(st, zone_index) ==
    LET base_id == zone_index * 10
        k == PyIndex(zone_index)
    IN  << Point("analogInput", base_id + 1, st.vav_zone_temps[k]),
           Point("analogValue", base_id + 1, st.vav_zone_setpoints[k]),
           Point("analogOutput", base_id + 1, st.vav_damper_positions[k]),
           Point("analogInput", base_id + 2, st.vav_airflows[k]),
           Point("analogOutput", base_id + 2, st.vav_reheat_valves[k]),
           Point("binaryInput", base_id + 1, Binary(st.is_occupied)) >>

\* ChillerProfile.create_objects
ChillerCreateObjects(st) ==
    << Point("analogInput", 100, st.chilled_water_supply_temp),
       Point("analogInput", 101, st.chilled_water_return_temp),
       Point("binaryInput", 100, "active"),
       Point("binaryOutput", 100, "active") >>

\* MeterProfile.create_objects
MeterCreateObjects(st) ==
    << Point("analogInput", 200, st.total_power),
       Point("analogInput", 201, st.total_energy),
       Point("analogInput", 202, Fx(480)) >>

\* profile.create_objects()
create_objects(prof, st) ==
    CASE prof.kind = "ahu"     -> AHUCreateObjects(st)
      [] prof.kind = "vav"     -> VAVCreateObjects(st, prof.zone_index)
      [] prof.kind = "chiller" -> ChillerCreateObjects(st)
      [] prof.kind = "meter"   -> MeterCreateObjects(st)

\* The statements of update_objects are executed in order; SyncResult gives
\* the state and the points after the first n of them.
SetPv(objs, j, v) == [objs EXCEPT ![j].pv = v]

\* mutant of AHUUpdateObjects: the fan status point follows the enable point
AHUUpdateObjectsStatusFromEnable(st, objs, n) ==
    LET o1 == IF n >= 1 THEN SetPv(objs, 1, st.ahu_supply_air_temp) ELSE objs
        o2 == IF n >= 2 THEN SetPv(o1, 2, st.ahu_return_air_temp) ELSE o1
        o3 == IF n >= 3 THEN SetPv(o2, 3, st.ahu_mixed_air_temp) ELSE o2
        o4 == IF n >= 4 THEN SetPv(o3, 4, st.ahu_supply_air_flow) ELSE o3
        s5 == IF n >= 5 THEN [st EXCEPT !.ahu_supply_air_setpoint = o4[5].pv] ELSE st
        o6 == IF n >= 6 THEN SetPv(o4, 6, s5.ahu_fan_speed) ELSE o4
        o7 == IF n >= 7 THEN SetPv(o6, 7, s5.ahu_cooling_valve) ELSE o6
        o8 == IF n >= 7 THEN SetPv(o7, 8, o7[9].pv) ELSE o7
    IN  [state |-> s5, objects |-> o8]

\* mutant of AHUUpdateObjects: the setpoint is synced as a sensor, state to
\* point
AHUUpdateObjectsSetpointOut(st, objs, n) ==
    LET o1 == IF n >= 1 THEN SetPv(objs, 1, st.ahu_supply_air_temp) ELSE objs
        o2 == IF n >= 2 THEN SetPv(o1, 2, st.ahu_return_air_temp) ELSE o1
        o3 == IF n >= 3 THEN SetPv(o2, 3, st.ahu_mixed_air_temp) ELSE o2
        o4 == IF n >= 4 THEN SetPv(o3, 4, st.ahu_supply_air_flow) ELSE o3
        o5 == IF n >= 5 THEN SetPv(o4, 5, st.ahu_supply_air_setpoint) ELSE o4
        o6 == IF n >= 6 THEN SetPv(o5, 6, st.ahu_fan_speed) ELSE o5
        o7 == IF n >= 7 THEN SetPv(o6, 7, st.ahu_cooling_valve) ELSE o6
    IN  [state |-> st, objects |-> o7]

\* mutant of AHUUpdateObjects: the fan speed output is synced as a command,
\* point to state
AHUUpdateObjectsFanIn(st, objs, n) ==
    LET o1 == IF n >= 1 THEN SetPv(objs, 1, st.ahu_supply_air_temp) ELSE objs
        o2 == IF n >= 2 THEN SetPv(o1, 2, st.ahu_return_air_temp) ELSE o1
        o3 == IF n >= 3 THEN SetPv(o2, 3, st.ahu_mixed_air_temp) ELSE o2
        o4 == IF n >= 4 THEN SetPv(o3, 4, st.ahu_supply_air_flow) ELSE o3
        s5 == IF n >= 5 THEN [st EXCEPT !.ahu_supply_air_setpoint = o4[5].pv] ELSE st
        s6 == IF n >= 6 THEN [s5 EXCEPT !.ahu_fan_speed = o4[6].pv] ELSE s5
        o7 == IF n >= 7 THEN SetPv(o4, 7, s6.ahu_cooling_valve) ELSE o4
    IN  [state |-> s6, objects |-> o7]

\* AHUProfile.update_objects, its first n statements
AHUUpdateObjects(st, objs, n) ==
    LET o1 == IF n >= 1 THEN SetPv(objs, 1, st.ahu_supply_air_temp) ELSE objs
        o2 == IF n >= 2 THEN SetPv(o1, 2, st.ahu_return_air_temp) ELSE o1
        o3 == IF n >= 3 THEN SetPv(o2, 3, st.ahu_mixed_air_temp) ELSE o2
        o4 == IF n >= 4 THEN SetPv(o3, 4, st.ahu_supply_air_flow) ELSE o3
        s5 == IF n >= 5 THEN [st EXCEPT !.ahu_supply_air_setpoint = o4[5].pv] ELSE st
        o6 == IF n >= 6 THEN SetPv(o4, 6, s5.ahu_fan_speed) ELSE o4
        o7 == IF n >= 7 THEN SetPv(o6, 7, s5.ahu_cooling_valve) ELSE o6
    IN  [state |-> s5, objects |-> o7]

\* mutant of VAVUpdateObjects: the setpoint point is copied into the setpoint
\* of every zone
VAVUpdateObjectsAllZones(st, objs, zone_index, n) ==
    LET k == PyIndex(zone_index)
        o1 == IF n >= 1 THEN SetPv(objs, 1, st.vav_zone_temps[k]) ELSE objs
        s2 == IF n >= 2
              THEN [st EXCEPT !.vav_zone_setpoints = [i \in Zones |-> o1[2].pv]]
              ELSE st
        o3 == IF n >= 3 THEN SetPv(o1, 3, s2.vav_damper_positions[k]) ELSE o1
        o4 == IF n >= 4 THEN SetPv(o3, 4, s2.vav_airflows[k]) ELSE o3
        o5 == IF n >= 5 THEN SetPv(o4, 5, s2.vav_reheat_valves[k]) ELSE o4
        o6 == IF n >= 6 THEN SetPv(o5, 6, Binary(s2.is_occupied)) ELSE o5
    IN  [state |-> s2, objects |-> o6]

\* mutant of VAVUpdateObjects: the setpoint is synced as a sensor, state to
\* point
VAVUpdateObjectsSetpointOut(st, objs, zone_index, n) ==
    LET k == PyIndex(zone_index)
        o1 == IF n >= 1 THEN SetPv(objs, 1, st.vav_zone_temps[k]) ELSE objs
        o2 == IF n >= 2 THEN SetPv(o1, 2, st.vav_zone_setpoints[k]) ELSE o1
        o3 == IF n >= 3 THEN SetPv(o2, 3, st.vav_damper_positions[k]) ELSE o2
        o4 == IF n >= 4 THEN SetPv(o3, 4, st.vav_airflows[k]) ELSE o3
        o5 == IF n >= 5 THEN SetPv(o4, 5, st.vav_reheat_valves[k]) ELSE o4
        o6 == IF n >= 6 THEN SetPv(o5, 6, Binary(st.is_occupied)) ELSE o5
    IN  [state |-> st, objects |-> o6]

\* VAVProfile.update_objects, its first n statements
VAVUpdateObjects(st, objs, zone_index, n) ==
    LET k == PyIndex(zone_index)
        o1 == IF n >= 1 THEN SetPv(objs, 1, st.vav_zone_temps[k]) ELSE objs
        s2 == IF n >= 2 THEN [st EXCEPT !.vav_zone_setpoints[k] = o1[2].pv] ELSE st
        o3 == IF n >= 3 THEN SetPv(o1, 3, s2.vav_damper_positions[k]) ELSE o1
        o4 == IF n >= 4 THEN SetPv(o3, 4, s2.vav_airflows[k]) ELSE o3
        o5 == IF n >= 5 THEN SetPv(o4, 5, s2.vav_reheat_valves[k]) ELSE o4
        o6 == IF n >= 6 THEN SetPv(o5, 6, Binary(s2.is_occupied)) ELSE o5
    IN  [state |-> s2, objects |-> o6]

\* ChillerProfile.update_objects, its first n statements
ChillerUpdateObjects(st, objs, n) ==
    LET o1 == IF n >= 1 THEN SetPv(objs, 1, st.chilled_water_supply_temp) ELSE objs
        o2 == IF n >= 2 THEN SetPv(o1, 2, st.chilled_water_return_temp) ELSE o1
    IN  [state |-> st, objects |-> o2]

\* mutant of MeterUpdateObjects: the energy point is not refreshed
MeterUpdateObjectsStaleEnergy(st, objs, r, n) ==
    LET o1 == IF n >= 1 THEN SetPv(objs, 1, st.total_power) ELSE objs
        o3 == IF n >= 3
              THEN SetPv(o1, 3, Fx(480) + PyUniform(Fx(-5), Fx(5), r)) ELSE o1
    IN  [state |-> st, objects |-> o3]

\* MeterProfile.update_objects, its first n statements; r is random.random()
MeterUpdateObjects(st, objs, r, n) ==
    LET o1 == IF n >= 1 THEN SetPv(objs, 1, st.total_power) ELSE objs
        o2 == IF n >= 2 THEN SetPv(o1, 2, st.total_energy) ELSE o1
        o3 == IF n >= 3
              THEN SetPv(o2, 3, Fx(480) + PyUniform(Fx(-5), Fx(5), r)) ELSE o2
    IN  [state |-> st, objects |-> o3]

\* the number of statements of each update_objects
SyncLength(prof) ==
    CASE prof.kind = "ahu"     -> 7
      [] prof.kind = "vav"     -> 6
      [] prof.kind = "chiller" -> 2
      [] prof.kind = "meter"   -> 3

\* profile.update_objects(objects), its first n statements
SyncPrefix(prof, st, objs, r, n) ==
    CASE prof.kind = "ahu"     -> AHUUpdateObjects(st, objs, n)
      [] prof.kind = "vav"     -> VAVUpdateObjects(st, objs, prof.zone_index, n)
      [] prof.kind = "chiller" -> ChillerUpdateObjects(st, objs, n)
      [] prof.kind = "meter"   -> MeterUpdateObjects(st, objs, r, n)

\* profile.update_objects(objects)
update_objects(prof, st, objs, r) == SyncPrefix(prof, st, objs, r, SyncLength(prof))

-----------------------------------------------------------------------------
(* BuildingSimulator *)

\* a string is the sequence of its characters
Str_ahu == <<"a", "h", "u">>
Str_vav == <<"v", "a", "v">>
Str_chiller == <<"c", "h", "i", "l", "l", "e", "r">>
Str_meter == <<"m", "e", "t", "e", "r">>
Str_furnace == <<"f", "u", "r", "n", "a", "c", "e">>

\* the values of --equipment the model starts the program with
Selectors ==
    { Str_ahu, Str_chiller, Str_meter, Str_furnace, Str_vav,
      Str_vav \o <<"0", "5">>, Str_vav \o <<"9">> }
    \cup { Str_vav \o <<d>> : d \in {"0", "1", "2", "3", "4", "5"} }

\* the selectors the help text of --equipment and the specification list
ListedSelectors ==
    { Str_ahu, Str_chiller, Str_meter }
    \cup { Str_vav \o <<d>> : d \in {"0", "1", "2", "3", "4", "5"} }

DigitValue(c) ==
    CASE c = "0" -> 0 [] c = "1" -> 1 [] c = "2" -> 2 [] c = "3" -> 3
      [] c = "4" -> 4 [] c = "5" -> 5 [] c = "6" -> 6 [] c = "7" -> 7
      [] c = "8" -> 8 [] c = "9" -> 9

IsDigit(c) == c \in {"0", "1", "2", "3", "4", "5", "6", "7", "8", "9"}

RECURSIVE DecimalValue(_, _)
DecimalValue(s, n) ==
    IF n = 0 THEN 0 ELSE DecimalValue(s, n - 1) * 10 + DigitValue(s[n])

\* int(s) for a string of sign and digit characters: ok is FALSE where int
\* raises ValueError
PyInt(s) ==
    LET signed == Len(s) >= 1 /\ s[1] \in {"-", "+"}
        body == IF signed THEN Tail(s) ELSE s
        v == DecimalValue(body, Len(body))
    IN  IF Len(body) >= 1 /\ \A j \in 1 .. Len(body) : IsDigit(body[j])
        THEN [ok |-> TRUE, val |-> IF signed /\ s[1] = "-" THEN 0 - v ELSE v]
        ELSE [ok |-> FALSE, val |-> 0]

\* equipment_type.startswith("vav")
StartsWithVav(s) == Len(s) >= 3 /\ SubSeq(s, 1, 3) = Str_vav

\* the selection of the profile in BuildingSimulator.__init__: error is the
\* exception raised, "" if none
SelectProfile(sel) ==
    IF sel = Str_ahu
    THEN [error |-> "", profile |-> [kind |-> "ahu", zone_index |-> 0]]
    ELSE IF StartsWithVav(sel)
    THEN LET zone_index == PyInt(SubSeq(sel, 4, Len(sel)))
         IN  IF zone_index.ok
             THEN [error |-> "",
                   profile |-> [kind |-> "vav", zone_index |-> zone_index.val]]
             ELSE [error |-> "ValueError", profile |-> NoProfile]
    ELSE IF sel = Str_chiller
    THEN [error |-> "", profile |-> [kind |-> "chiller", zone_index |-> 0]]
    ELSE IF sel = Str_meter
    THEN [error |-> "", profile |-> [kind |-> "meter", zone_index |-> 0]]
    ELSE [error |-> "ValueError", profile |-> NoProfile]

\* create_objects raises IndexError when it reads the state of a zone that
\* does not exist
CreateRaises(prof) == prof.kind = "vav" /\ ~PyIndexOK(prof.zone_index)

RECURSIVE Oids(_, _)
Oids(objs, n) == IF n = 0 THEN <<>> ELSE Append(Oids(objs, n - 1), objs[n].oid)

Event(kind, idx) == [kind |-> kind, idx |-> idx]

\* the update loop reads the clock and the random generator at every tick and
\* holds no reading
NoEnv == [now |-> <<0, 0>>, rnd |-> [k \in 1 .. 12 |-> 50]]

\* positions of the process while update_loop runs
Running == {"update", "sync", "log", "except", "sleep"}

Init ==
    /\ pc = "init"
    /\ equipment_type \in Selectors
    /\ profile = NoProfile
    /\ state = BuildingStateInit
    /\ objects = <<>>
    /\ registered = <<>>
    /\ ticks = 0
    /\ writes = 0
    /\ faults = 0
    /\ ev = Event("start", 0)
    /\ before = BuildingStateInit
    /\ last_write = [idx |-> 0, val |-> 0]
    /\ env = NoEnv
    /\ warm = [i \in Zones |-> 0]

\* BuildingSimulator.__init__
Initialize ==
    /\ pc = "init"
    /\ LET sel == SelectProfile(equipment_type)
       IN  IF sel.error # ""
           THEN /\ pc' = "config_error"
                /\ ev' = Event(sel.error, 0)
                /\ UNCHANGED <<profile, objects, registered>>
           ELSE IF CreateRaises(sel.profile)
           THEN /\ pc' = "config_error"
                /\ profile' = sel.profile
                /\ ev' = Event("IndexError", 0)
                /\ UNCHANGED <<objects, registered>>
           ELSE /\ pc' = "update"
                /\ profile' = sel.profile
                /\ objects' = create_objects(sel.profile, state)
                /\ registered' = Oids(objects', Len(objects'))
                /\ ev' = Event("init", 0)
    /\ UNCHANGED <<equipment_type, state, ticks, writes, faults, before, last_write>>
    /\ UNCHANGED <<env, warm>>

\* self.state.update() in update_loop
Update ==
    /\ pc = "update"
    /\ ticks < MaxTicks
    /\ \E d \in Draws : state' = update(state, d)
    /\ pc' = "sync"
    /\ ticks' = ticks + 1
    /\ ev' = Event("update", 0)
    /\ before' = state
    /\ UNCHANGED <<equipment_type, profile, objects, registered, writes, faults,
                   last_write>>
    /\ UNCHANGED <<env, warm>>

\* the places <<n, z>> where the model lets an exception leave update(): in
\* update_occupancy (n = 0, nothing assigned yet), inside update_vavs at
\* zone 2 (n = 3, z = 2: the air handler and zones 0 and 1 are updated) and
\* in update_power (n = 5: the five earlier steps are done)
UpdateFaultPlaces == { <<0, 0>>, <<3, 2>>, <<5, 0>> }

\* self.state.update() raises an exception
UpdateRaises ==
    /\ pc = "update"
    /\ ticks < MaxTicks
    /\ faults < MaxFaults
    /\ \E d \in Draws, f \in UpdateFaultPlaces :
          /\ state' = UpdatePrefix(state, d, f[1], f[2])
          /\ ev' = Event("raise_update", f[1] * 10 + f[2])
    /\ pc' = "except"
    /\ ticks' = ticks + 1
    /\ faults' = faults + 1
    /\ before' = state
    /\ UNCHANGED <<equipment_type, profile, objects, registered, writes, last_write>>
    /\ UNCHANGED <<env, warm>>

\* self.profile.update_objects(self.objects) in update_loop
Sync ==
    /\ pc = "sync"
    /\ \E r \in RandNoise :
          LET res == update_objects(profile, state, objects, r)
          IN  /\ state' = res.state
              /\ objects' = res.objects
    /\ pc' = "log"
    /\ ev' = Event("sync", 0)
    /\ UNCHANGED <<equipment_type, profile, registered, ticks, writes, faults,
                   before, last_write>>
    /\ UNCHANGED <<env, warm>>

\* the places where the model lets an exception leave update_objects: n is
\* the number of its statements already executed, none or all but the last
SyncFaultPlaces(prof) == {0, SyncLength(prof) - 1}

\* self.profile.update_objects(self.objects) raises an exception in its
\* statement n + 1
SyncRaises ==
    /\ pc = "sync"
    /\ faults < MaxFaults
    /\ \E r \in RandNoise, n \in SyncFaultPlaces(profile) :
          LET res == SyncPrefix(profile, state, objects, r, n)
          IN  /\ state' = res.state
              /\ objects' = res.objects
              /\ ev' = Event("raise_sync", n)
    /\ pc' = "except"
    /\ faults' = faults + 1
    /\ UNCHANGED <<equipment_type, profile, registered, ticks, writes, before,
                   last_write>>
    /\ UNCHANGED <<env, warm>>

\* the status line of update_loop
LogStatus ==
    /\ pc = "log"
    /\ pc' = "sleep"
    /\ ev' = Event("log", 0)
    /\ UNCHANGED <<equipment_type, profile, state, objects, registered, ticks,
                   writes, faults, before, last_write>>
    /\ UNCHANGED <<env, warm>>

\* mutant of ExceptTarget: the except clause resumes the failed iteration at
\* its sync
ExceptTargetResumeSync == "sync"

\* mutant of ExceptTarget: the failed iteration is retried at once
ExceptTargetRetry == "update"

\* mutant of ExceptTarget: the exception is raised again and ends the task
ExceptTargetReraised == "crashed"

\* where the except clause of update_loop leaves the process
ExceptTarget == "sleep"

\* mutant of ExceptState: the failed iteration is rolled back
ExceptStateRolledBack(st, snap) == snap

\* what the except clause of update_loop does to the BuildingState st, snap
\* being the BuildingState when the failed iteration began
ExceptState(st, snap) == st

\* except Exception as e: logger.error(...)
HandleException ==
    /\ pc = "except"
    /\ pc' = ExceptTarget
    /\ state' = ExceptState(state, before)
    /\ ev' = Event("except", 0)
    /\ UNCHANGED <<equipment_type, profile, objects, registered, ticks, writes,
                   faults, before, last_write>>
    /\ UNCHANGED <<env, warm>>

\* await asyncio.sleep(INTERVAL) returns and the loop starts its next iteration
Wake ==
    /\ pc = "sleep"
    /\ pc' = "update"
    /\ ev' = Event("wake", 0)
    /\ UNCHANGED <<equipment_type, profile, state, objects, registered, ticks,
                   writes, faults, before, last_write>>
    /\ UNCHANGED <<env, warm>>

\* mutant of Suspended: update_loop also awaits between update() and
\* update_objects()
SuspendedBeforeSync == pc \in {"sleep", "sync"}

\* The event loop runs another callback only where update_loop awaits.
Suspended == pc = "sleep"

\* the points an external actor can write: values, outputs
Writable(objs) ==
    { j \in 1 .. Len(objs) :
        objs[j].oid[1] \in {"analogValue", "analogOutput", "binaryOutput"} }

\* the values an external actor writes
AnalogWrites == {Fx(0), Fx(150)}
BinaryWrites == {"active", "inactive"}

WriteValues(objs, j) ==
    IF objs[j].oid[1] = "binaryOutput" THEN BinaryWrites ELSE AnalogWrites

\* the written value as a number: a binary value is 1 (active) or 0
WrittenNumber(objs, j, v) ==
    IF objs[j].oid[1] = "binaryOutput"
    THEN (IF v = "active" THEN 1 ELSE 0)
    ELSE v

\* the point-exposure service serves a write request
ExternalWrite ==
    /\ Suspended
    /\ writes < MaxWrites
    /\ \E j \in Writable(objects) :
          \E v \in WriteValues(objects, j) :
             /\ objects' = SetPv(objects, j, v)
             /\ ev' = Event("write", j)
             /\ last_write' = [idx |-> j, val |-> WrittenNumber(objects, j, v)]
    /\ writes' = writes + 1
    /\ UNCHANGED <<pc, equipment_type, profile, state, registered, ticks, faults,
                   before>>
    /\ UNCHANGED <<env, warm>>

\* KeyboardInterrupt: run() exits
Interrupt ==
    /\ pc \in Running
    /\ pc' = "stopped"
    /\ ev' = Event("interrupt", 0)
    /\ UNCHANGED <<equipment_type, profile, state, objects, registered, ticks,
                   writes, faults, before, last_write>>
    /\ UNCHANGED <<env, warm>>

Next ==
    \/ Initialize
    \/ Update
    \/ UpdateRaises
    \/ Sync
    \/ SyncRaises
    \/ LogStatus
    \/ HandleException
    \/ Wake
    \/ ExternalWrite
    \/ Interrupt

Spec == Init /\ [][Next]_vars

\* the steps of update_loop itself
LoopStep ==
    \/ Wake
    \/ Update
    \/ UpdateRaises
    \/ Sync
    \/ SyncRaises
    \/ LogStatus
    \/ HandleException

\* The profiles with a commandable setpoint, one of each kind.
InitSetpoint ==
    /\ Init
    /\ equipment_type \in {Str_ahu, Str_vav \o <<"3">>}

\* asyncio.sleep(INTERVAL) returns, and the statements of the loop body follow
\* one another without awaiting: the loop does not stand still while it can
\* take a step.
FairSpec == InitSetpoint /\ [][Next]_vars /\ WF_vars(LoopStep)

-----------------------------------------------------------------------------
(* BuildingState.update() called tick after tick on a held environment *)

\* number of calls of update() in a physics run
MaxPhysicsTicks == 22

\* random.uniform(a, b) in the middle of its range: noise disabled.  The
\* occupancy draw follows the schedule (50), makes the building occupied (0)
\* or unoccupied (99) whatever the hour.
QuietStream(occ) == [k \in 1 .. 12 |-> IF k = DrawOcc THEN occ ELSE 50]
QuietStreams == { QuietStream(occ) : occ \in {0, 50, 99} }

\* a weekday at every hour, and a Sunday at night
PhysicsClock == { <<2, h>> : h \in 0 .. 23 } \cup { <<6, 3>> }

PhysicsEnvs == [now : PhysicsClock, rnd : QuietStreams \cup Streams]

\* BuildingState values a run starts from: the constructor's, and the
\* constructor's with one zone's setpoint written (low, default, high) and
\* its reheat valve ramped part of the way or all the way up
StartStates ==
    { BuildingStateInit }
    \cup { [BuildingStateInit EXCEPT !.vav_zone_setpoints[z] = sp,
                                     !.vav_reheat_valves[z] = rh] :
             z \in {0, 3}, sp \in {Fx(0), Fx(72), Fx(150)},
             rh \in {Fx(0), Fx(50), Fx(100)} }

\* the reheat test of update_vavs, read off the BuildingState after a tick
WarmNext(w, st) ==
    [i \in Zones |->
        IF st.vav_zone_temps[i] >= st.vav_zone_setpoints[i] - Fx(1)
        THEN w[i] + 1 ELSE 0]

PhysicsInit ==
    /\ pc = "physics"
    /\ equipment_type = <<>>
    /\ profile = NoProfile
    /\ state \in StartStates
    /\ objects = <<>>
    /\ registered = <<>>
    /\ ticks = 0
    /\ writes = 0
    /\ faults = 0
    /\ ev = Event("start", 0)
    /\ before = state
    /\ last_write = [idx |-> 0, val |-> 0]
    /\ env \in PhysicsEnvs
    /\ warm = [i \in Zones |-> 0]

\* self.state.update(), the clock and the random numbers being env
PhysicsTick ==
    /\ pc = "physics"
    /\ ticks < MaxPhysicsTicks
    /\ state' = update(state, env)
    /\ warm' = WarmNext(warm, state')
    /\ ticks' = ticks + 1
    /\ ev' = Event("update", 0)
    /\ before' = state
    /\ UNCHANGED <<pc, equipment_type, profile, objects, registered, writes,
                   faults, last_write, env>>

PhysicsNext == PhysicsTick

PhysicsSpec == PhysicsInit /\ [][PhysicsNext]_vars

-----------------------------------------------------------------------------
(* Properties *)

IsVav == profile.kind = "vav"
IsAhu == profile.kind = "ahu"

\* the zone a Zone profile is bound to
BoundZone == PyIndex(profile.zone_index)

\* C1: after any number of ticks, every zone's damper position is in
\* [20, 100], the cooling valve is in [0, 100] and every zone's reheat valve
\* is in [0, 100].
C1_ValveAndDamperRanges ==
    /\ Fx(0) <= state.ahu_cooling_valve /\ state.ahu_cooling_valve <= Fx(100)
    /\ \A i \in Zones :
          /\ Fx(20) <= state.vav_damper_positions[i]
          /\ state.vav_damper_positions[i] <= Fx(100)
          /\ Fx(0) <= state.vav_reheat_valves[i]
          /\ state.vav_reheat_valves[i] <= Fx(100)

\* C1 witness: a tick has run on a setpoint absorbed from the command point,
\* the damper of that zone is held at its upper limit and its reheat valve at
\* its lower limit.
C1_Witness ==
    /\ IsVav /\ ev.kind = "update"
    /\ state.vav_zone_setpoints[BoundZone] = Fx(0)
    /\ state.vav_damper_positions[BoundZone] = Fx(100)
    /\ state.vav_reheat_valves[BoundZone] = Fx(0)
    /\ before.vav_damper_positions[BoundZone] < Fx(100)

\* C2: cumulative energy never decreases, whatever step is taken.
C2_EnergyNonDecreasing ==
    [][state'.total_energy >= state.total_energy]_vars

\* C2 witness: two ticks have added energy, the second while unoccupied.
C2_Witness ==
    /\ ev.kind = "update" /\ ticks >= 2
    /\ ~state.is_occupied
    /\ before.total_energy > 0
    /\ state.total_energy > before.total_energy

\* C3: a sync of a Zone profile leaves in vav_zone_setpoints[k] exactly the
\* value its setpoint point held when sync was invoked, and no other step,
\* the physics update included, changes any zone setpoint.
C3_SetpointRoundTrip ==
    [][ /\ (IsVav /\ ev'.kind = "sync")
           => state'.vav_zone_setpoints[BoundZone] = objects[2].pv
        /\ (ev'.kind \notin {"sync", "raise_sync"})
           => state'.vav_zone_setpoints = state.vav_zone_setpoints ]_vars

\* C3 witness: the next physics update begins with the written value in the
\* state's setpoint field.
C3_Witness ==
    /\ IsVav /\ pc = "update" /\ ev.kind = "wake"
    /\ last_write = [idx |-> 2, val |-> Fx(150)]
    /\ state.vav_zone_setpoints[BoundZone] = Fx(150)

\* C4 (as claimed): a selector that is not one of the nine listed ones never
\* gets past initialization, and no point is created or registered for it.
C4_UnlistedSelectorFails ==
    equipment_type \notin ListedSelectors
        => /\ pc \in {"init", "config_error"}
           /\ objects = <<>>
           /\ registered = <<>>

\* C5: once the loop runs, only an external interruption takes the process
\* out of it; the except clause leaves it sleeping, the handler can always
\* run and the sleep can always end in a further iteration.
C5_ExceptionKeepsRunning ==
    /\ [][ (pc \in Running /\ pc' \notin Running)
              => (ev'.kind = "interrupt" /\ pc' = "stopped") ]_vars
    /\ [][ ev'.kind = "except" => pc' = "sleep" ]_vars
    /\ [](pc = "except" => ENABLED HandleException)
    /\ [](pc = "sleep" => ENABLED Wake)

\* C5 witness: an iteration's update() completes after an earlier iteration
\* raised an exception.
C5_Witness ==
    /\ ev.kind = "update" /\ pc = "sync"
    /\ faults = 1 /\ ticks >= 2

\* C6: the except clause, the sleep and the start of the next iteration
\* change no BuildingState field and no point value: what an iteration had
\* assigned when it raised is what the next tick starts from (a point can
\* change in between only by an external write).
C6_PartialEffectsRetained ==
    [][ /\ ev'.kind \in {"except", "wake", "log", "interrupt"}
           => (state' = state /\ objects' = objects)
        /\ ev'.kind = "write" => state' = state ]_vars

\* C6 witness: the next tick starts after an iteration that raised inside
\* update_vavs: zones 0 and 1 have their new temperature, zone 2 and the power
\* have the pre-tick value.
C6_Witness ==
    /\ pc = "update" /\ ev.kind = "wake"
    /\ ticks = 1 /\ faults = 1
    /\ state.vav_zone_temps[0] # before.vav_zone_temps[0]
    /\ state.vav_zone_temps[1] # before.vav_zone_temps[1]
    /\ state.vav_zone_temps[2] = before.vav_zone_temps[2]
    /\ state.ahu_mixed_air_temp # before.ahu_mixed_air_temp
    /\ state.total_power = before.total_power

\* the commandable setpoint of the running profile: its place in the point
\* list and the BuildingState field bound to it
HasSetpoint == (IsAhu \/ IsVav) /\ objects # <<>>
SetpointIndex == IF IsAhu THEN 5 ELSE 2
SetpointField(st) ==
    IF IsAhu THEN st.ahu_supply_air_setpoint
    ELSE st.vav_zone_setpoints[BoundZone]

\* C7 (as claimed): when the physics of a tick runs, the setpoint it sees is
\* the value last written to the point before that tick's sync reads it,
\* which is the value the point holds when the tick starts.
C7_PhysicsSeesLastWrite ==
    (HasSetpoint /\ pc = "update" /\ ticks < MaxTicks)
        => SetpointField(state) = objects[SetpointIndex].pv

\* enough iterations are left for a sync to complete whatever exceptions the
\* model still raises
SyncWillComplete == ticks + (MaxFaults - faults) < MaxTicks

\* C7 (amended): a completed sync copies the value the setpoint point holds
\* into the bound field; the field changes in no other way, so the physics of
\* a tick sees the value read by the latest earlier sync (the constructor's
\* default before any); and a written value that is not overwritten is
\* copied by a later sync unless the process is stopped.
C7_WritesEventuallyApplied ==
    /\ [][ /\ (HasSetpoint /\ ev'.kind = "sync")
              => SetpointField(state') = objects[SetpointIndex].pv
           /\ (HasSetpoint /\ SetpointField(state') # SetpointField(state))
              => /\ ev'.kind \in {"sync", "raise_sync"}
                 /\ SetpointField(state') = objects[SetpointIndex].pv ]_vars
    /\ \A v \in AnalogWrites :
          (/\ HasSetpoint /\ ev.kind = "write" /\ ev.idx = SetpointIndex
           /\ objects[SetpointIndex].pv = v /\ SyncWillComplete)
          ~> (HasSetpoint
                 => \/ SetpointField(state) = v
                    \/ pc = "stopped"
                    \/ objects[SetpointIndex].pv # v)

\* C7 witness: the physics of a tick has run on the old setpoint, after which
\* the sync of the same iteration has copied the written value.
C7_Witness ==
    /\ IsAhu /\ ev.kind = "sync" /\ ticks = 2
    /\ last_write = [idx |-> 5, val |-> Fx(0)]
    /\ before.ahu_supply_air_setpoint = Fx(55)
    /\ state.ahu_supply_air_setpoint = Fx(0)

\* C8: an external write changes no BuildingState field; the sync of the
\* AirHandler profile takes nothing from the fan-speed and cooling-valve
\* points (the state after it is the state before it with the setpoint read
\* from the setpoint point) and puts the physics values back into them.
C8_PhysicsOwnsFanAndValve ==
    [][ /\ ev'.kind = "write" => state' = state
        /\ (IsAhu /\ ev'.kind = "sync")
           => /\ state' = [state EXCEPT !.ahu_supply_air_setpoint = objects[5].pv]
              /\ objects'[6].pv = state.ahu_fan_speed
              /\ objects'[7].pv = state.ahu_cooling_valve
        /\ (IsAhu /\ ev'.kind = "raise_sync")
           => /\ state'.ahu_fan_speed = state.ahu_fan_speed
              /\ state'.ahu_cooling_valve = state.ahu_cooling_valve ]_vars

\* C8 witness: the fan-speed point was written from outside and the next
\* sync has put the physics value back.
C8_Witness ==
    /\ IsAhu /\ ev.kind = "sync"
    /\ last_write = [idx |-> 6, val |-> Fx(150)]
    /\ objects[6].pv = state.ahu_fan_speed
    /\ state.ahu_fan_speed <= Fx(80)

\* the sensor points of the running profile equal their bound fields
SensorPointsInSync ==
    CASE profile.kind = "ahu" ->
            /\ objects[1].pv = state.ahu_supply_air_temp
            /\ objects[2].pv = state.ahu_return_air_temp
            /\ objects[3].pv = state.ahu_mixed_air_temp
            /\ objects[4].pv = state.ahu_supply_air_flow
      [] profile.kind = "vav" ->
            /\ objects[1].pv = state.vav_zone_temps[BoundZone]
            /\ objects[4].pv = state.vav_airflows[BoundZone]
            /\ objects[6].pv = "active" <=> state.is_occupied
            /\ objects[6].pv \in {"active", "inactive"}
      [] profile.kind = "chiller" ->
            /\ objects[1].pv = state.chilled_water_supply_temp
            /\ objects[2].pv = state.chilled_water_return_temp
      [] profile.kind = "meter" ->
            /\ objects[1].pv = state.total_power
            /\ objects[2].pv = state.total_energy

\* C9: immediately after every sync that completes, each sensor point equals
\* its bound BuildingState field.
C9_SensorsMatchAfterSync ==
    ev.kind = "sync" => SensorPointsInSync

\* C9 witness: the Meter profile has synced its second tick, and the energy
\* point shows the energy of both.
C9_Witness ==
    /\ profile.kind = "meter" /\ ev.kind = "sync" /\ ticks = 2
    /\ objects[2].pv = state.total_energy
    /\ state.total_energy > before.total_energy
    /\ before.total_energy > 0

\* C10: an external write happens only while the loop sleeps, and from the
\* start of update() to the end of the iteration no point and no state field
\* changes except by the iteration's own update and sync.
C10_WritesOnlyDuringSleep ==
    [][ /\ ev'.kind = "write" => (pc = "sleep" /\ pc' = "sleep")
        /\ (pc \in {"update", "sync", "log", "except"} /\ objects' # objects)
           => ev'.kind \in {"sync", "raise_sync"}
        /\ (pc \in {"update", "sync", "log", "except"} /\ state' # state)
           => ev'.kind \in {"update", "raise_update", "sync", "raise_sync"} ]_vars

\* C10 witness: a write has been served during the sleep that follows a
\* tick, and the point holds the written value.
C10_Witness ==
    /\ ev.kind = "write" /\ pc = "sleep" /\ ticks >= 1
    /\ objects[ev.idx].oid[1] = "analogValue"
    /\ objects[ev.idx].pv = last_write.val

\* a first tick from the constructor's defaults, noise disabled, occupied
QuietFirstTick ==
    /\ pc = "physics" /\ ticks = 1
    /\ before = BuildingStateInit
    /\ env.rnd \in QuietStreams
    /\ state.is_occupied

\* C11 (as claimed): with noise disabled, one tick from the constructor's
\* defaults with occupied = true leaves the mixed-air temperature at
\* 72 * 0.8 + 85 * 0.2 = 74.6.
C11_MixedAirIs74_6 ==
    QuietFirstTick => state.ahu_mixed_air_temp = 7460

\* C11 (amended): that tick leaves the mixed-air temperature at
\* 72 * 0.8 + T * 0.2, T being the outdoor temperature the same tick's
\* update_outdoor_temp computed from the hour, 75 + 15 sin((hour - 6) pi / 12),
\* in place of the constructor's 85; this is 74.6 at no hour.
C11_MixedAirFromTickOutdoorTemp ==
    QuietFirstTick
        => /\ state.outdoor_temp = Fx(75) + DailySwing[env.now[2] + 1]
           /\ state.ahu_mixed_air_temp
                 = (Fx(72) * 80) \div 100 + (state.outdoor_temp * 20) \div 100
           /\ state.ahu_mixed_air_temp # 7460

\* C11 witness: the first tick at noon: outdoor 90, mixed air 75.6.
C11_Witness ==
    /\ QuietFirstTick
    /\ env.now = <<2, 12>>
    /\ state.outdoor_temp = Fx(90)
    /\ state.ahu_mixed_air_temp = 7560

\* C12: in every tick whose reheat test finds a zone at or above its setpoint
\* minus 1 (the zone temperature as that tick has just updated it), the
\* zone's reheat valve drops by 5, or to 0; after twenty such ticks in a row
\* the valve is at 0, and it stays there while the ticks go on being such.
C12_ReheatRampsDown ==
    /\ [][ \A i \in Zones :
             (/\ ev'.kind = "update"
              /\ state'.vav_zone_temps[i] >= state'.vav_zone_setpoints[i] - Fx(1))
             => /\ state'.vav_reheat_valves[i]
                      = Max2(Fx(0), state.vav_reheat_valves[i] - Fx(5))
                /\ state'.vav_reheat_valves[i] <= state.vav_reheat_valves[i] ]_vars
    /\ [](\A i \in Zones : warm[i] >= 20 => state.vav_reheat_valves[i] = Fx(0))

\* C12 witness: unoccupied, noise disabled: the twentieth warm tick in a row
\* takes a reheat valve that started fully open from 5 to 0.
C12_Witness ==
    /\ pc = "physics" /\ ticks = 20
    /\ env.rnd = QuietStream(99) /\ ~state.is_occupied
    /\ \E i \in Zones :
          /\ warm[i] = 20
          /\ before.vav_reheat_valves[i] = Fx(5)
          /\ state.vav_reheat_valves[i] = Fx(0)

\* the number of points the specification gives each profile
ClaimedPointCount(prof) ==
    CASE prof.kind = "ahu"     -> 8
      [] prof.kind = "vav"     -> 6
      [] prof.kind = "chiller" -> 4
      [] prof.kind = "meter"   -> 3

\* the number of points create_objects returns for each profile
PointCount(prof) ==
    CASE prof.kind = "ahu"     -> 9
      [] prof.kind = "vav"     -> 6
      [] prof.kind = "chiller" -> 4
      [] prof.kind = "meter"   -> 3

\* C13 (as claimed): the point list has 8 points for the AirHandler profile,
\* 6 for a Zone profile, 4 for the Chiller profile and 3 for the Meter
\* profile.
C13_PointCountsAsClaimed ==
    objects # <<>> => Len(objects) = ClaimedPointCount(profile)

\* C13 (amended): create_objects returns 9 points for the AirHandler profile,
\* 6 for a Zone profile, 4 for the Chiller profile and 3 for the Meter
\* profile, and no step changes the length of the list or the order of its
\* identifiers afterwards.
C13_PointListShapeFixed ==
    [][ /\ ev'.kind = "init" => Len(objects') = PointCount(profile')
        /\ objects # <<>>
           => /\ Len(objects') = Len(objects)
              /\ Oids(objects', Len(objects')) = Oids(objects, Len(objects)) ]_vars

\* C13 witness: the AirHandler profile has synced its second tick with its
\* nine points, the enable point last.
C13_Witness ==
    /\ IsAhu /\ ev.kind = "sync" /\ ticks = 2
    /\ Len(objects) = 9
    /\ objects[9].oid = <<"binaryOutput", 1>>

\* the identifiers of the Zone profile of zone i and of the Chiller profile
ZoneOids(i) == { VAVCreateObjects(state, i)[k].oid : k \in 1 .. 6 }
ChillerOids == { ChillerCreateObjects(state)[k].oid : k \in 1 .. 4 }

\* C14: when a profile has created and registered its points, the
\* identifiers it registered are all different; the identifier sets
\* create_objects gives two different zones are disjoint, each holds six
\* different identifiers, and no Chiller identifier is a Zone identifier.
C14_IdentifiersCollisionFree ==
    ev.kind = "init"
    => /\ \A i, j \in Zones : i # j => ZoneOids(i) \cap ZoneOids(j) = {}
       /\ \A i \in Zones : Cardinality(ZoneOids(i)) = 6
       /\ \A i \in Zones : ZoneOids(i) \cap ChillerOids = {}
       /\ Cardinality(ChillerOids) = 4
       /\ Cardinality({ registered[k] : k \in 1 .. Len(registered) })
             = Len(registered)
       /\ IsVav => { registered[k] : k \in 1 .. Len(registered) }
                      = ZoneOids(BoundZone)

\* C14 witness: the Zone profile of zone 5 has registered its airflow point
\* as analogInput 52.
C14_Witness ==
    /\ ev.kind = "init"
    /\ IsVav /\ profile.zone_index = 5
    /\ Len(registered) = 6
    /\ registered[4] = <<"analogInput", 52>>

\* C15: update() is called only as the first step of an iteration, right
\* after initialization or after the sleep has returned; sync follows a
\* completed update(), the status line a completed sync, the except clause a
\* raised exception; the sleep is entered from the status line or from the
\* except clause only and is left only by returning into the next iteration.
C15_UpdateSyncStatusSleep ==
    [][ /\ ev'.kind \in {"update", "raise_update"}
           => (pc = "update" /\ ev.kind \in {"init", "wake"})
        /\ ev'.kind \in {"sync", "raise_sync"} => ev.kind = "update"
        /\ ev'.kind = "log" => ev.kind = "sync"
        /\ ev'.kind = "except" => ev.kind \in {"raise_update", "raise_sync"}
        /\ (pc # "sleep" /\ pc' = "sleep") => ev'.kind \in {"log", "except"}
        /\ ev'.kind = "wake"
           => (pc = "sleep" /\ ev.kind \in {"log", "except", "write"}) ]_vars

\* C15 witness: the third call of update() completes, one of the two earlier
\* iterations having failed.
C15_Witness ==
    /\ ev.kind = "update" /\ ticks = 3
    /\ faults = 1 /\ writes = 0

\* sum(self.vav_zone_temps) / len(self.vav_zone_temps)
MeanZoneTemp(st) == SumTo(st.vav_zone_temps, 6) \div 6

\* C16 (as claimed): at sync time the return air temperature is the mean of
\* the six zone temperatures held in BuildingState.
C16_ReturnAirIsMeanAtSync ==
    (pc = "sync" /\ ev.kind = "update")
        => state.ahu_return_air_temp = MeanZoneTemp(state)

\* C16 (amended): at sync time the return air temperature is the mean of the
\* six zone temperatures as they were when the tick began: update_ahu
\* computes it before update_vavs moves the zone temperatures.
C16_ReturnAirIsMeanBeforeZoneStep ==
    (pc = "sync" /\ ev.kind = "update")
        => state.ahu_return_air_temp = MeanZoneTemp(before)

\* C16 witness: after the second tick the return air temperature is the mean
\* of the zone temperatures the first tick left, not of the present ones.
C16_Witness ==
    /\ pc = "sync" /\ ev.kind = "update" /\ ticks = 2
    /\ state.ahu_return_air_temp = MeanZoneTemp(before)
    /\ state.ahu_return_air_temp # MeanZoneTemp(state)
    /\ state.ahu_return_air_temp # Fx(72)

\* the temperature the zone step gives zone i from the zone's temperature
\* temp, this tick's airflow, the supply air temperature supply it reads,
\* the occupancy occ and the load noise r
ZoneTempWith(temp, airflow, supply, occ, i, r) ==
    LET zone_load == (IF occ THEN 50 ELSE 10) + PyUniform(-20, 20, r)
                     + (IF i % 2 = 0 THEN 30 ELSE 0)
        cooling_effect == ((airflow \div 10) * (temp - supply)) \div 200000
    IN  temp + ((zone_load * 2 - cooling_effect) * INTERVAL) \div 60

\* C17: after a tick, every step's result is the one computed from the values
\* the earlier steps of the same tick produced: the mixed air from this
\* tick's occupancy and outdoor temperature, every zone temperature from this
\* tick's supply air temperature and occupancy, the chilled water from this
\* tick's cooling valve, the power from this tick's fan, valves and occupancy.
C17_StepsReadSameTickValues ==
    (pc = "physics" /\ ev.kind = "update")
    => /\ state.is_occupied
            = (IF is_business_hours(env.now)
               THEN env.rnd[DrawOcc] < 95 ELSE env.rnd[DrawOcc] < 5)
       /\ state.ahu_mixed_air_temp
            = (before.ahu_return_air_temp
                  * (IF state.is_occupied THEN 80 ELSE 90)) \div 100
              + (state.outdoor_temp
                  * (IF state.is_occupied THEN 20 ELSE 10)) \div 100
       /\ \A i \in Zones :
             state.vav_zone_temps[i]
                = ZoneTempWith(before.vav_zone_temps[i], state.vav_airflows[i],
                               state.ahu_supply_air_temp, state.is_occupied,
                               i, env.rnd[DrawZone(i)])
       /\ state.chilled_water_supply_temp
            = (IF state.ahu_cooling_valve * 100 > Fx(50) THEN Fx(42) ELSE Fx(44))
              + PyUniform(Fx(-1), Fx(1), env.rnd[DrawChs])
       /\ state.total_power = TotalPower(state, env.rnd[DrawMisc])

\* C17 witness: the first tick has moved the supply air temperature, and
\* zone 0 has the temperature computed from the new one, which is not the
\* temperature the old one gives.
C17_Witness ==
    /\ pc = "physics" /\ ticks = 1
    /\ state.ahu_supply_air_temp # before.ahu_supply_air_temp
    /\ state.vav_zone_temps[0]
          = ZoneTempWith(before.vav_zone_temps[0], state.vav_airflows[0],
                         state.ahu_supply_air_temp, state.is_occupied,
                         0, env.rnd[DrawZone(0)])
    /\ state.vav_zone_temps[0]
          # ZoneTempWith(before.vav_zone_temps[0], state.vav_airflows[0],
                         before.ahu_supply_air_temp, state.is_occupied,
                         0, env.rnd[DrawZone(0)])

\* C18 (as claimed): whenever the points of a Zone profile have just been
\* created or synced, the airflow point is 30 times the damper position point
\* and at most 3000 CFM.
C18_AirflowIsThirtyTimesDamper ==
    (IsVav /\ ev.kind \in {"init", "sync"})
        => /\ objects[4].pv = objects[3].pv * 30
           /\ objects[4].pv <= Fx(3000)

\* C19: after every tick, the chilled water is within 1 of 42 (supply) and
\* 52 (return) if this tick's cooling valve times 100 exceeds 50, within 1 of
\* 44 and 54 otherwise, and the return is warmer than the supply.
C19_ChillerTwoState ==
    ev.kind = "update"
    => LET sup == state.chilled_water_supply_temp
           ret == state.chilled_water_return_temp
       IN  /\ IF state.ahu_cooling_valve * 100 > Fx(50)
              THEN /\ Fx(41) <= sup /\ sup <= Fx(43)
                   /\ Fx(51) <= ret /\ ret <= Fx(53)
              ELSE /\ Fx(43) <= sup /\ sup <= Fx(45)
                   /\ Fx(53) <= ret /\ ret <= Fx(55)
           /\ ret > sup

\* C19 witness: a setpoint written from outside has closed the cooling valve,
\* and the tick leaves the chilled water near 44 and 54.
C19_Witness ==
    /\ IsAhu /\ ev.kind = "update" /\ ticks = 3
    /\ state.ahu_cooling_valve = Fx(0)
    /\ before.ahu_cooling_valve > Fx(0)
    /\ state.chilled_water_supply_temp >= Fx(43)
    /\ state.chilled_water_return_temp >= Fx(53)
    /\ state.chilled_water_supply_temp + state.chilled_water_return_temp > Fx(97)

\* C20: the fan speed is always in [0, 100]; after a tick it is in [70, 80]
\* if that tick found the building occupied and in [35, 45] if not, whatever
\* was written to the fan-speed point.
C20_FanSpeedIsPercentage ==
    /\ Fx(0) <= state.ahu_fan_speed /\ state.ahu_fan_speed <= Fx(100)
    /\ ev.kind = "update"
       => IF state.is_occupied
          THEN Fx(70) <= state.ahu_fan_speed /\ state.ahu_fan_speed <= Fx(80)
          ELSE Fx(35) <= state.ahu_fan_speed /\ state.ahu_fan_speed <= Fx(45)

\* C20 witness: 150 was written to the fan-speed point, and the tick that
\* follows its sync finds the building unoccupied and leaves the fan speed
\* between 35 and 45.
C20_Witness ==
    /\ IsAhu /\ ev.kind = "update" /\ ticks = 3
    /\ last_write = [idx |-> 6, val |-> Fx(150)]
    /\ ~state.is_occupied
    /\ Fx(35) <= state.ahu_fan_speed /\ state.ahu_fan_speed <= Fx(45)

\* the BuildingState fields a sync assigns from a command point
CommandFields(st) == <<st.ahu_supply_air_setpoint, st.vav_zone_setpoints>>

\* C21: the step in which update() raises changes no point value and no
\* command field of the BuildingState; the except clause is the only step of
\* the loop that follows it; from the except clause until the sleep returns,
\* neither a sync nor a status line nor a call of update() takes place, the
\* except clause and the return of the sleep change no point value and no
\* BuildingState field, and an external write changes no BuildingState field.
C21_FailedUpdateSkipsSync ==
    [][ /\ ev'.kind = "raise_update"
           => /\ objects' = objects
              /\ CommandFields(state') = CommandFields(state)
        /\ ev.kind = "raise_update"
           => /\ ev'.kind \in {"except", "interrupt"}
              /\ pc' \in {"sleep", "stopped"}
        /\ (ev.kind \in {"except", "write"} /\ pc = "sleep")
           => ev'.kind \in {"write", "wake", "interrupt"}
        /\ ev'.kind \in {"except", "wake", "interrupt"}
           => (objects' = objects /\ state' = state)
        /\ ev'.kind = "write" => state' = state ]_vars

\* C21 witness: a value was written to the setpoint point during the first
\* sleep, the second call of update() raised before assigning anything, and
\* the except clause has run: the point still holds the written value and the
\* BuildingState is as it was when the iteration began, its setpoint unlike
\* the point.
C21_Witness ==
    /\ HasSetpoint /\ pc = "sleep" /\ ev.kind = "except"
    /\ ticks = 2 /\ faults = 1 /\ writes = 1
    /\ state = before
    /\ last_write.idx = SetpointIndex
    /\ objects[SetpointIndex].pv = last_write.val
    /\ SetpointField(state) # objects[SetpointIndex].pv

\* the status (binary input) and enable (binary output) points of the
\* AirHandler and Chiller profiles: their places in the point list
HasEnable == profile.kind \in {"ahu", "chiller"} /\ objects # <<>>
StatusIndex == IF IsAhu THEN 8 ELSE 3
EnableIndex == IF IsAhu THEN 9 ELSE 4

\* C22: the status point of an AirHandler or Chiller profile holds "active"
\* in every state; no step of the loop changes the enable point, which
\* changes by an external write only; a write to the enable point changes no
\* BuildingState field; and a sync, completed or interrupted by an exception,
\* started with any other value in the enable point would leave the same
\* BuildingState and the same values in all other points, so that every
\* later call of update() starts from the same BuildingState.
C22_EnableAndStatusOutsideSync ==
    /\ [](HasEnable => objects[StatusIndex].pv = "active")
    /\ [][ HasEnable =>
           /\ objects'[EnableIndex].pv # objects[EnableIndex].pv
              => (ev'.kind = "write" /\ ev'.idx = EnableIndex)
           /\ (ev'.kind = "write" /\ ev'.idx = EnableIndex) => state' = state
           /\ ev'.kind \in {"update", "raise_update"} => objects' = objects
           /\ ev'.kind \in {"sync", "raise_sync"}
              => \A v \in BinaryWrites : \E r \in RandNoise :
                    LET n == IF ev'.kind = "sync"
                             THEN SyncLength(profile) ELSE ev'.idx
                        res == SyncPrefix(profile, state,
                                          SetPv(objects, EnableIndex, v), r, n)
                    IN  /\ res.state = state'
                        /\ res.objects = SetPv(objects', EnableIndex, v) ]_vars

\* C22 witness: "inactive" was written to the enable point of the air
\* handler, a sync and a further call of update() have completed since: the
\* enable point still holds "inactive", the fan status "active", and the fan
\* runs.
C22_Witness ==
    /\ IsAhu /\ ev.kind = "update" /\ ticks = 3
    /\ last_write = [idx |-> 9, val |-> 0]
    /\ objects[9].pv = "inactive"
    /\ objects[8].pv = "active"
    /\ state.ahu_fan_speed >= Fx(35)

\* C23: a sync, completed or interrupted by an exception, changes at most one
\* BuildingState field: ahu_supply_air_setpoint in an AirHandler profile, the
\* setpoint of the bound zone in a Zone profile (the setpoints of the other
\* five zones keep their values), and none in a Chiller or Meter profile.
C23_SyncWritesAtMostOneField ==
    [][ ev'.kind \in {"sync", "raise_sync"}
        => CASE profile.kind = "ahu"
                  -> state' = [state EXCEPT !.ahu_supply_air_setpoint =
                                               state'.ahu_supply_air_setpoint]
             [] profile.kind = "vav"
                  -> /\ state' = [state EXCEPT !.vav_zone_setpoints[BoundZone] =
                                      state'.vav_zone_setpoints[BoundZone]]
                     /\ \A i \in Zones \ {BoundZone} :
                           state'.vav_zone_setpoints[i] =
                              state.vav_zone_setpoints[i]
             [] profile.kind \in {"chiller", "meter"}
                  -> state' = state ]_vars

\* C23 witness: the sync of the profile of zone 3 has copied a written 0 into
\* the setpoint of zone 3, which was 72 when the iteration began; the other
\* five zones still have the setpoint 72.
C23_Witness ==
    /\ IsVav /\ BoundZone = 3 /\ ev.kind = "sync"
    /\ last_write = [idx |-> 2, val |-> Fx(0)]
    /\ before.vav_zone_setpoints[3] = Fx(72)
    /\ state.vav_zone_setpoints[3] = Fx(0)
    /\ \A i \in Zones \ {3} : state.vav_zone_setpoints[i] = Fx(72)

====
